---- MODULE Spec2Model ----
(***************************************************************************)
(* A model of src/storage/in_mem.go: the multiraft Storage interface, its  *)
(* in-memory implementation MemoryStorage, and writeTask, the goroutine    *)
(* that applies writeRequests to a Storage and answers with writeResponses.*)
(*                                                                         *)
(* Go slices are 0-based and TLA+ sequences 1-based: the element the code  *)
(* calls g.entries[i] is entries[i + 1] here, and len(g.entries) is        *)
(* Len(entries).                                                           *)
(***************************************************************************)
EXTENDS Integers, Sequences, FiniteSets, TLC

\* ------------------------------------------------------------------ bounds

\* Largest LogEntry.Index a caller passes in.
MaxIndex == 5
\* Largest number of entries in one AppendLogEntries call made directly.
MaxBatch == 3
\* Largest number of real entries a group's log grows to.
MaxLog == 5
\* Largest CurrentTerm a caller passes to SetGroupElectionState directly.
MaxTerm == 2

\* The groups callers name.
GroupIDs == {"g1", "g2"}

\* ------------------------------------------------------------- data types

\* The nil *LogEntry that getGroup stores at g.entries[0].
NilEntry == [isNil |-> TRUE, Index |-> 0, Term |-> 0]

LogEntry(index, term) == [isNil |-> FALSE, Index |-> index, Term |-> term]

GroupElectionState(term, voted) == [CurrentTerm |-> term, VotedFor |-> voted]

\* The zero value of GroupElectionState, which a new memoryGroup starts with.
ZeroElectionState == GroupElectionState(0, 0)

\* The nodes a vote goes to; 0 is no vote.
NodeIDs == {0, 1}

\* The election states a caller passes to SetGroupElectionState directly.
ElectionStates ==
    {GroupElectionState(term, voted) : term \in 0..MaxTerm, voted \in NodeIDs}

\* The numbers of S in increasing order.
RECURSIVE SortedSeq(_)
SortedSeq(S) ==
    IF S = {} THEN <<>>
    ELSE LET min == CHOOSE x \in S : \A y \in S : x <= y
         IN <<min>> \o SortedSeq(S \ {min})

\* The batches a caller passes to AppendLogEntries directly: at most MaxBatch
\* entries in increasing order of Index, starting anywhere and with or without
\* gaps. MemoryStorage never reads an entry's Term, so these all carry term 1.
CallBatches ==
    {[i \in 1..Len(SortedSeq(S)) |-> LogEntry(SortedSeq(S)[i], 1)] :
        S \in {T \in SUBSET (0..MaxIndex) : Cardinality(T) <= MaxBatch}}

\* ------------------------------------------------------- MemoryStorage

VARIABLES
    groups,     \* MemoryStorage.groups: GroupID -> memoryGroup, for the groups created
    call        \* the last call made directly on the Storage, and what it returned

\* NewMemoryGroup without the dummy entry: a 0-based log.
NewMemoryGroupNoDummy == [electionState |-> ZeroElectionState, entries |-> <<>>]

\* The memoryGroup getGroup creates: the zero election state and a log that
\* holds only the dummy entry.
NewMemoryGroup == [electionState |-> ZeroElectionState, entries |-> <<NilEntry>>]

\* m.groups after getGroup(groupID): the group is created if it is missing.
getGroup(m, groupID) ==
    IF groupID \in DOMAIN m
    THEN m
    ELSE [x \in DOMAIN m \cup {groupID} |-> IF x = groupID THEN NewMemoryGroup ELSE m[x]]

\* The entries of the memoryGroup that getGroup(groupID) returns.
LogOf(m, groupID) == getGroup(m, groupID)[groupID].entries

\* SetGroupElectionState keeping the stored state when it carries a higher
\* CurrentTerm than the new one.
SetGroupElectionStateIfNewer(m, groupID, electionState) ==
    LET g == getGroup(m, groupID) IN
    [groups |-> IF electionState.CurrentTerm >= g[groupID].electionState.CurrentTerm
                THEN [g EXCEPT ![groupID].electionState = electionState]
                ELSE g,
     err |-> FALSE]

\* MemoryStorage.SetGroupElectionState: overwrites, and returns nil.
SetGroupElectionState(m, groupID, electionState) ==
    [groups |-> [getGroup(m, groupID) EXCEPT ![groupID].electionState = electionState],
     err |-> FALSE]

\* The check of AppendLogEntries' loop: entry i (0-based) must carry the index
\* len(g.entries) + i.
IndexMismatch(log, entries) ==
    \E i \in 1..Len(entries) : Len(log) + (i - 1) /= entries[i].Index

\* The entries of a batch that come before its first mismatch.
RECURSIVE MatchingPrefix(_, _)
MatchingPrefix(log, entries) ==
    IF entries = <<>> \/ Len(log) /= Head(entries).Index
    THEN <<>>
    ELSE <<Head(entries)>> \o MatchingPrefix(Append(log, Head(entries)), Tail(entries))

\* AppendLogEntries without the check of the indices.
AppendLogEntriesUnchecked(m, groupID, entries) ==
    [groups |-> [getGroup(m, groupID) EXCEPT ![groupID].entries = @ \o entries],
     err |-> FALSE]

\* AppendLogEntries appending each entry as it is checked: the entries before a
\* mismatch stay in the log.
AppendLogEntriesAsChecked(m, groupID, entries) ==
    LET g == getGroup(m, groupID) IN
    [groups |-> [g EXCEPT ![groupID].entries = @ \o MatchingPrefix(@, entries)],
     err |-> IndexMismatch(g[groupID].entries, entries)]

\* MemoryStorage.AppendLogEntries: every entry is checked before any is appended.
AppendLogEntries(m, groupID, entries) ==
    LET g == getGroup(m, groupID) IN
    IF IndexMismatch(g[groupID].entries, entries)
    THEN [groups |-> g, err |-> TRUE]
    ELSE [groups |-> [g EXCEPT ![groupID].entries = @ \o entries], err |-> FALSE]

\* What GetLogEntries sends for index i.
LogEntryState(i, entry) == [Index |-> i, Entry |-> entry, Error |-> FALSE]

\* GetLogEntriesLoop stopping before lastIndex (i < lastIndex).
RECURSIVE GetLogEntriesLoopExclusive(_, _, _, _)
GetLogEntriesLoopExclusive(log, i, lastIndex, sent) ==
    IF i >= lastIndex
    THEN [sent |-> sent, closed |-> TRUE, panicked |-> FALSE]
    ELSE IF i < 0 \/ i >= Len(log) \/ log[i + 1].isNil
    THEN [sent |-> sent, closed |-> FALSE, panicked |-> TRUE]
    ELSE GetLogEntriesLoopExclusive(log, i + 1, lastIndex,
                                    Append(sent, LogEntryState(i, log[i + 1])))

\* The loop of GetLogEntries from index i on; sent is what the channel has
\* received so far. g.entries[i] panics when i is out of range, and *g.entries[i]
\* panics on the nil dummy entry: the loop then ends without closing the channel.
RECURSIVE GetLogEntriesLoop(_, _, _, _)
GetLogEntriesLoop(log, i, lastIndex, sent) ==
    IF i > lastIndex
    THEN [sent |-> sent, closed |-> TRUE, panicked |-> FALSE]
    ELSE IF i < 0 \/ i >= Len(log) \/ log[i + 1].isNil
    THEN [sent |-> sent, closed |-> FALSE, panicked |-> TRUE]
    ELSE GetLogEntriesLoop(log, i + 1, lastIndex, Append(sent, LogEntryState(i, log[i + 1])))

\* MemoryStorage.GetLogEntries, with a receiver that takes every element.
GetLogEntries(m, groupID, firstIndex, lastIndex) ==
    GetLogEntriesLoop(LogOf(m, groupID), firstIndex, lastIndex, <<>>)

\* No call made yet; the fields are those of the calls below.
NoCall ==
    [op |-> "none", group |-> "g1", entries |-> <<>>,
     first |-> 0, last |-> 0, err |-> FALSE, before |-> <<NilEntry>>,
     sent |-> <<>>, closed |-> FALSE, panicked |-> FALSE,
     electionState |-> ZeroElectionState, stored |-> ZeroElectionState]

\* A caller appends a batch of entries to a group's log.
CallAppendLogEntries ==
    \E groupID \in GroupIDs, entries \in CallBatches :
        LET r == AppendLogEntries(groups, groupID, entries) IN
        /\ Len(LogOf(r.groups, groupID)) <= MaxLog + 1
        /\ groups' = r.groups
        /\ call' = [NoCall EXCEPT !.op = "append", !.group = groupID, !.entries = entries,
                                  !.err = r.err, !.before = LogOf(groups, groupID)]

\* A caller reads a range of a group's log and drains the channel.
CallGetLogEntries ==
    \E groupID \in GroupIDs, firstIndex \in 0..MaxLog, lastIndex \in 0..MaxLog + 1 :
        LET r == GetLogEntries(groups, groupID, firstIndex, lastIndex) IN
        /\ groups' = getGroup(groups, groupID)
        /\ call' = [NoCall EXCEPT !.op = "get", !.group = groupID,
                                  !.first = firstIndex, !.last = lastIndex,
                                  !.before = LogOf(groups, groupID),
                                  !.sent = r.sent, !.closed = r.closed,
                                  !.panicked = r.panicked]

\* A caller sets a group's election state; stored is the state the group held
\* before the call.
CallSetGroupElectionState ==
    \E groupID \in GroupIDs, electionState \in ElectionStates :
        LET r == SetGroupElectionState(groups, groupID, electionState) IN
        /\ groups' = r.groups
        /\ call' = [NoCall EXCEPT !.op = "set", !.group = groupID, !.err = r.err,
                                  !.before = LogOf(groups, groupID),
                                  !.electionState = electionState,
                                  !.stored = getGroup(groups, groupID)[groupID].electionState]

\* ---------------------------------------------------------------- InMem

\* The maxBytes the store is made with.
MaxBytes == 14
\* Largest number of puts, and of dels, in one writeBatch call.
MaxPuts == 2
MaxDels == 2
\* Largest max a caller passes to scan.
MaxScan == 3

\* unsafe.Sizeof(llrb.Node{}) and unsafe.Sizeof(KeyValue{}): fixed by the build,
\* and positive.
llrbNodeSize == 2
keyValueSize == 1

\* The keys callers store under, as byte strings: a key, an extension of it and
\* a key that sorts after both.
Keys == {<<1>>, <<1, 1>>, <<2>>}

\* The keys callers pass to scan as start and end: the stored keys, the empty
\* key, which sorts before them all, and a key that sorts after them all.
ScanKeys == Keys \cup {<<>>, <<3>>}

\* The Value.Bytes callers store: of length 0 and of length 2.
Values == {<<>>, <<7, 7>>}

KeyValue(key, value) == [Key |-> key, Value |-> value]

\* bytes.Compare: -1, 0 or 1 as a sorts before, with or after b, byte by byte,
\* a proper prefix sorting first.
RECURSIVE Compare(_, _)
Compare(a, b) ==
    IF a = <<>> /\ b = <<>> THEN 0
    ELSE IF a = <<>> THEN -1
    ELSE IF b = <<>> THEN 1
    ELSE IF Head(a) < Head(b) THEN -1
    ELSE IF Head(a) > Head(b) THEN 1
    ELSE Compare(Tail(a), Tail(b))

\* computeSize: the lengths of the key and of the value, and the fixed overhead.
computeSize(kv) == Len(kv.Key) + Len(kv.Value) + llrbNodeSize + keyValueSize

\* llrb.Tree, as the set of the elements it holds: no two compare equal.
\* Tree.Get: the element that compares equal to the key, or nil.
Get(data, key) ==
    LET found == {e \in data : Compare(e.Key, key) = 0} IN
    IF found = {} THEN [isNil |-> TRUE, kv |-> KeyValue(key, <<>>)]
    ELSE [isNil |-> FALSE, kv |-> CHOOSE e \in found : TRUE]

\* Tree.Insert: the element takes the place of the one that compares equal to it.
Insert(data, kv) == {e \in data : Compare(e.Key, kv.Key) /= 0} \cup {kv}

\* Tree.Delete
Delete(data, key) == {e \in data : Compare(e.Key, key) /= 0}

\* The elements of a set of KeyValues from left to right in the tree.
RECURSIVE InOrder(_)
InOrder(elems) ==
    IF elems = {} THEN <<>>
    ELSE LET first == CHOOSE e \in elems : \A f \in elems : Compare(e.Key, f.Key) <= 0
         IN <<first>> \o InOrder(elems \ {first})

\* scan's callback applied to the elements DoRange visits, from left to right,
\* until it returns done.
RECURSIVE scanVisit(_, _, _)
scanVisit(elems, max, scanned) ==
    IF elems = <<>> THEN scanned
    ELSE IF max /= 0 /\ Len(scanned) >= max THEN scanned
    ELSE scanVisit(Tail(elems), max, Append(scanned, Head(elems)))

\* The interval Tree.DoRange(fn, from, to) visits, for from <= to.
DoRangeInterval(data, from, to) ==
    {e \in data : Compare(from, e.Key) <= 0 /\ Compare(e.Key, to) < 0}

\* sync.RWMutex: whether a writer holds it, and how many readers do.
FreeMutex == [w |-> FALSE, r |-> 0]

\* NewInMem: no bytes used and an empty tree.
NewInMem(maxBytes) ==
    [maxBytes |-> maxBytes, usedBytes |-> 0, data |-> {}, mu |-> FreeMutex]

\* in.Lock() can proceed.
CanLock(s) == ~s.mu.w /\ s.mu.r = 0

Lock(s) == [s EXCEPT !.mu.w = TRUE]

Unlock(s) == [s EXCEPT !.mu.w = FALSE]

\* in.RLock() can proceed.
CanRLock(s) == ~s.mu.w

RLock(s) == [s EXCEPT !.mu.r = @ + 1]

RUnlock(s) == [s EXCEPT !.mu.r = @ - 1]

\* putLocked refusing an entry that fills the store exactly (>= for >).
putLockedStrict(s, key, value) ==
    LET kv == KeyValue(key, value)
        size == computeSize(kv)
    IN IF size + s.usedBytes >= s.maxBytes
       THEN [store |-> s, err |-> TRUE]
       ELSE [store |-> [s EXCEPT !.usedBytes = @ + size, !.data = Insert(@, kv)],
             err |-> FALSE]

\* InMem.putLocked
putLocked(s, key, value) ==
    LET kv == KeyValue(key, value)
        size == computeSize(kv)
    IN IF size + s.usedBytes > s.maxBytes
       THEN [store |-> s, err |-> TRUE]
       ELSE [store |-> [s EXCEPT !.usedBytes = @ + size, !.data = Insert(@, kv)],
             err |-> FALSE]

\* InMem.put
put(s, key, value) ==
    LET r == putLocked(Lock(s), key, value)
    IN [store |-> Unlock(r.store), err |-> r.err]

\* InMem.get: the zero Value for a key that is not stored.
get(s, key) ==
    LET val == Get(RLock(s).data, key)
    IN IF val.isNil THEN <<>> ELSE val.kv.Value

\* scan leaving the end key in (key <= end).
scanEndInclusive(s, start, end, max) ==
    scanVisit(InOrder({e \in s.data : Compare(start, e.Key) <= 0
                                      /\ Compare(e.Key, end) <= 0}), max, <<>>)

\* InMem.scan
scan(s, start, end, max) ==
    scanVisit(InOrder(DoRangeInterval(RLock(s).data, start, end)), max, <<>>)

\* delLocked taking the entry's size away also when the key is not stored.
delLockedAlways(s, key) ==
    [store |-> [s EXCEPT !.usedBytes = @ - computeSize(Get(s.data, key).kv),
                         !.data = Delete(@, key)],
     err |-> FALSE]

\* InMem.delLocked
delLocked(s, key) ==
    LET val == Get(s.data, key)
    IN [store |-> [s EXCEPT !.usedBytes = IF val.isNil THEN @ ELSE @ - computeSize(val.kv),
                            !.data = Delete(@, key)],
        err |-> FALSE]

\* InMem.del
del(s, key) ==
    LET r == delLocked(Lock(s), key)
    IN [store |-> Unlock(r.store), err |-> r.err]

\* The first loop of writeBatch: it returns at the first put that fails.
RECURSIVE putsLoop(_, _)
putsLoop(s, puts) ==
    IF puts = <<>> THEN [store |-> s, err |-> FALSE]
    ELSE LET r == putLocked(s, Head(puts).Key, Head(puts).Value)
         IN IF r.err THEN r ELSE putsLoop(r.store, Tail(puts))

\* The second loop of writeBatch.
RECURSIVE delsLoop(_, _)
delsLoop(s, dels) ==
    IF dels = <<>> THEN [store |-> s, err |-> FALSE]
    ELSE LET r == delLocked(s, Head(dels))
         IN IF r.err THEN r ELSE delsLoop(r.store, Tail(dels))

\* writeBatch going back to the store as it was when a put fails.
writeBatchRollback(s, puts, dels) ==
    LET p == putsLoop(Lock(s), puts)
        r == IF p.err THEN [store |-> s, err |-> TRUE] ELSE delsLoop(p.store, dels)
    IN [store |-> Unlock(r.store), err |-> r.err]

\* writeBatch with the loops in the other order: dels, then puts.
writeBatchDelsFirst(s, puts, dels) ==
    LET d == delsLoop(Lock(s), dels)
        r == putsLoop(d.store, puts)
    IN [store |-> Unlock(r.store), err |-> r.err]

\* InMem.writeBatch
writeBatch(s, puts, dels) ==
    LET p == putsLoop(Lock(s), puts)
        r == IF p.err THEN p ELSE delsLoop(p.store, dels)
    IN [store |-> Unlock(r.store), err |-> r.err]

\* InMem.capacity: takes no lock.
capacity(s) == [Capacity |-> s.maxBytes, Available |-> s.maxBytes - s.usedBytes]

\* The KeyValues callers store.
KeyValues == {KeyValue(key, value) : key \in Keys, value \in Values}

\* The sequences over S of length n or less.
SeqUpTo(S, n) == UNION {[1..k -> S] : k \in 0..n}

\* The puts of a writeBatch call: any KeyValues, a key more than once included.
PutLists == SeqUpTo(KeyValues, MaxPuts)

\* The dels of a writeBatch call: keys in any order, each once.
DelLists == {d \in SeqUpTo(Keys, MaxDels) : \A i, j \in 1..Len(d) : d[i] = d[j] => i = j}

\* The goroutines that call the store at the same time.
Threads == {"t1", "t2"}

VARIABLES
    inMem,      \* the InMem: maxBytes, usedBytes, data and the embedded RWMutex
    memCall,    \* the call a lone caller made on the store, and what it returned
    threads     \* per goroutine calling the store concurrently, where it is in its call

memVars == <<inMem, memCall, threads>>

\* No call made, or its result taken; the fields are those of the calls below.
NoMemCall ==
    [op |-> "none", key |-> <<>>, value |-> <<>>, puts |-> <<>>, dels |-> <<>>,
     start |-> <<>>, end |-> <<>>, max |-> 0, err |-> FALSE,
     before |-> NewInMem(MaxBytes), scanned |-> <<>>, got |-> <<>>,
     capacity |-> capacity(NewInMem(MaxBytes))]

\* A goroutine that is in no call of the store.
IdleThread ==
    [pc |-> "idle", op |-> "none", puts |-> <<>>, dels |-> <<>>, err |-> FALSE,
     midWrite |-> FALSE]

\* A lone caller makes a call once it has taken the result of the one before.
CanCall == memCall.op = "none" /\ \A t \in Threads : threads[t].pc = "idle"

CallPut ==
    /\ CanCall
    /\ CanLock(inMem)
    /\ \E key \in Keys, value \in Values :
          LET r == put(inMem, key, value) IN
          /\ inMem' = r.store
          /\ memCall' = [NoMemCall EXCEPT !.op = "put", !.key = key, !.value = value,
                                          !.err = r.err, !.before = inMem]
    /\ UNCHANGED threads

CallGet ==
    /\ CanCall
    /\ CanRLock(inMem)
    /\ \E key \in Keys :
          memCall' = [NoMemCall EXCEPT !.op = "get", !.key = key, !.before = inMem,
                                      !.got = get(inMem, key)]
    /\ UNCHANGED <<inMem, threads>>

\* A caller scans an interval whose start does not sort after its end.
CallScan ==
    /\ CanCall
    /\ CanRLock(inMem)
    /\ \E start \in ScanKeys, end \in ScanKeys, max \in -1..MaxScan :
          /\ Compare(start, end) <= 0
          /\ memCall' = [NoMemCall EXCEPT !.op = "scan", !.start = start, !.end = end,
                                          !.max = max, !.before = inMem,
                                          !.scanned = scan(inMem, start, end, max)]
    /\ UNCHANGED <<inMem, threads>>

CallDel ==
    /\ CanCall
    /\ CanLock(inMem)
    /\ \E key \in Keys :
          LET r == del(inMem, key) IN
          /\ inMem' = r.store
          /\ memCall' = [NoMemCall EXCEPT !.op = "del", !.key = key, !.err = r.err,
                                          !.before = inMem]
    /\ UNCHANGED threads

CallWriteBatch ==
    /\ CanCall
    /\ CanLock(inMem)
    /\ \E puts \in PutLists, dels \in DelLists :
          LET r == writeBatch(inMem, puts, dels) IN
          /\ inMem' = r.store
          /\ memCall' = [NoMemCall EXCEPT !.op = "writeBatch", !.puts = puts,
                                          !.dels = dels, !.err = r.err, !.before = inMem]
    /\ UNCHANGED threads

CallCapacity ==
    /\ CanCall
    /\ memCall' = [NoMemCall EXCEPT !.op = "capacity", !.before = inMem,
                                    !.capacity = capacity(inMem)]
    /\ UNCHANGED <<inMem, threads>>

\* The caller takes the result of its call.
Return ==
    /\ memCall.op /= "none"
    /\ memCall' = NoMemCall
    /\ UNCHANGED <<inMem, threads>>

\* What concurrent goroutines call to write: put, del, and a writeBatch that
\* puts two keys and deletes the first.
WriteJobs ==
    {[op |-> "put", puts |-> <<KeyValue(<<1>>, <<>>)>>, dels |-> <<>>],
     [op |-> "del", puts |-> <<>>, dels |-> <<<<1>>>>],
     [op |-> "writeBatch",
      puts |-> <<KeyValue(<<1>>, <<7, 7>>), KeyValue(<<2>>, <<>>)>>,
      dels |-> <<<<1>>>>]}

\* A goroutine enters put, del or writeBatch, and in.Lock() returns: it blocks
\* while another goroutine holds the mutex.
BeginWrite(t) ==
    /\ memCall.op = "none"
    /\ threads[t].pc = "idle"
    /\ CanLock(inMem)
    /\ inMem' = Lock(inMem)
    /\ \E job \in WriteJobs :
          threads' = [threads EXCEPT ![t] =
              [IdleThread EXCEPT !.pc = "write", !.op = job.op,
                                 !.puts = job.puts, !.dels = job.dels]]
    /\ UNCHANGED memCall

\* The goroutine holding the lock runs one putLocked or delLocked of its call.
WriteStep(t) ==
    /\ threads[t].pc = "write"
    /\ ~threads[t].err
    /\ \/ /\ threads[t].puts /= <<>>
          /\ LET r == putLocked(inMem, Head(threads[t].puts).Key,
                                Head(threads[t].puts).Value) IN
             /\ inMem' = r.store
             /\ threads' = [threads EXCEPT ![t].puts = Tail(@), ![t].err = r.err]
       \/ /\ threads[t].puts = <<>>
          /\ threads[t].dels /= <<>>
          /\ LET r == delLocked(inMem, Head(threads[t].dels)) IN
             /\ inMem' = r.store
             /\ threads' = [threads EXCEPT ![t].dels = Tail(@), ![t].err = r.err]
    /\ UNCHANGED memCall

\* The call returns, at the first error or with the loops done, and the
\* deferred in.Unlock() runs.
EndWrite(t) ==
    /\ threads[t].pc = "write"
    /\ threads[t].err \/ (threads[t].puts = <<>> /\ threads[t].dels = <<>>)
    /\ inMem' = Unlock(inMem)
    /\ threads' = [threads EXCEPT ![t] = IdleThread]
    /\ UNCHANGED memCall

\* A goroutine enters get or scan, and in.RLock() returns: it blocks while a
\* writer holds the mutex.
BeginRead(t) ==
    /\ memCall.op = "none"
    /\ threads[t].pc = "idle"
    /\ CanRLock(inMem)
    /\ inMem' = RLock(inMem)
    /\ \E op \in {"get", "scan"} :
          threads' = [threads EXCEPT ![t] = [IdleThread EXCEPT !.pc = "read", !.op = op]]
    /\ UNCHANGED memCall

\* get or scan reads the tree and returns, and the deferred in.RUnlock() runs.
EndRead(t) ==
    /\ threads[t].pc = "read"
    /\ inMem' = RUnlock(inMem)
    /\ threads' = [threads EXCEPT ![t] = [IdleThread EXCEPT !.midWrite = inMem.mu.w]]
    /\ UNCHANGED memCall

\* A goroutine enters capacity: no lock is taken.
BeginCapacity(t) ==
    /\ memCall.op = "none"
    /\ threads[t].pc = "idle"
    /\ threads' = [threads EXCEPT ![t] =
                       [IdleThread EXCEPT !.pc = "capacity", !.op = "capacity"]]
    /\ UNCHANGED <<inMem, memCall>>

\* capacity reads in.maxBytes and in.usedBytes and returns; midWrite is whether
\* a put, del or writeBatch held the mutex at that moment.
EndCapacity(t) ==
    /\ threads[t].pc = "capacity"
    /\ threads' = [threads EXCEPT ![t] = [IdleThread EXCEPT !.midWrite = inMem.mu.w]]
    /\ UNCHANGED <<inMem, memCall>>

\* ------------------------------------------------------------ writeTask

\* Most requests a caller submits in one run.
MaxReq == 2

\* Capacities of the channels newWriteTask makes: in and out hold one element,
\* ready and stopper none.
InCap == 1
OutCap == 1

\* A *GroupElectionState: nil, or a pointer to a value.
NilElectionState == [isNil |-> TRUE, val |-> ZeroElectionState]

PtrTo(electionState) == [isNil |-> FALSE, val |-> electionState]

\* The entries start, start + 1, ... carrying the given terms.
Run(start, terms) == [i \in 1..Len(terms) |-> LogEntry(start + i - 1, terms[i])]

\* A new election state with one entry, at index 1.
StateAndEntry ==
    [electionState |-> PtrTo(GroupElectionState(2, 0)), entries |-> Run(1, <<2>>)]

\* The changes a caller asks for in one group: a new election state alone, three
\* entries from index 1 on alone, or a new election state with one entry.
GroupWriteRequests ==
    {[electionState |-> PtrTo(GroupElectionState(1, 1)), entries |-> <<>>],
     [electionState |-> NilElectionState, entries |-> Run(1, <<1, 1, 2>>)],
     StateAndEntry}

\* writeRequest.groups: a groupWriteRequest for each group of any set of groups.
WriteRequests == UNION {[G -> GroupWriteRequests] : G \in SUBSET GroupIDs}

\* The requests that ask for the same change, StateAndEntry, in every group they
\* name: the second such request for a group fails to append.
UniformRequests == UNION {[G -> {StateAndEntry}] : G \in SUBSET GroupIDs}

VARIABLES
    stopper,    \* writeTask.stopper: "open" until stop() closes it
    in,         \* writeTask.in: the requests buffered in the channel
    out,        \* writeTask.out: the responses buffered in the channel
    pc,         \* where the goroutine running start() is
    request,    \* start()'s request
    response,   \* start()'s response.groups, as built so far
    todo,       \* the groups of the request the range loop has not visited
    pre,        \* the Storage as it was when the request was received
    calls,      \* what each Storage call made for the request returned
    submitted,  \* per request sent on in, in order, the number of its groups
    accepted,   \* the ids of the requests start() received from in, in order
    sent,       \* the ids of the responses start() sent on out, in order
    backendLog, \* the id of the request of every range-loop iteration, in order
    probe       \* the last non-blocking send on ready, and the task when it was made

vars == <<groups, call, stopper, in, out, pc, request, response, todo, pre, calls,
          submitted, accepted, sent, backendLog, probe, inMem, memCall, threads>>

storageVars == <<groups, call>>

taskVars == <<stopper, in, out, pc, request, response, todo, pre, calls,
              submitted, accepted, sent, backendLog, probe>>

NoRequest == [id |-> 0, groups |-> <<>>]

Init ==
    /\ groups = <<>>
    /\ call = NoCall
    /\ stopper = "open"
    /\ in = <<>>
    /\ out = <<>>
    /\ pc = "select"
    /\ request = NoRequest
    /\ response = <<>>
    /\ todo = {}
    /\ pre = <<>>
    /\ calls = <<>>
    /\ submitted = <<>>
    /\ accepted = <<>>
    /\ sent = <<>>
    /\ backendLog = <<>>
    /\ probe = [made |-> FALSE, ok |-> FALSE, pc |-> "select", stopper |-> "open"]
    /\ inMem = NewInMem(MaxBytes)
    /\ memCall = NoMemCall
    /\ threads = [t \in Threads |-> IdleThread]

\* After the select: start() holds the request and enters the range loop, which
\* ends at once when the request names no group.
Receive(req) ==
    /\ request' = req
    /\ response' = <<>>
    /\ todo' = DOMAIN req.groups
    /\ pre' = groups
    /\ calls' = <<>>
    /\ accepted' = Append(accepted, req.id)
    /\ pc' = IF DOMAIN req.groups = {} THEN "send" ELSE "apply"

\* AtSelect with a request also received while the range loop of the request
\* before it is still running.
AtSelectOrInLoop == pc \in {"select", "apply"}

\* AtSelect with the stopper case looping instead of returning.
AtSelectOrReturned == pc \in {"select", "exited"}

\* The goroutine reaches the select statement.
AtSelect == pc = "select"

\* start() evaluates its select. A case that can proceed is taken, any one when
\* several can: a closed stopper can be received from, and so can a buffered
\* request. No sender waits on ready (the probes never block), so that case
\* cannot proceed here. With no case able to proceed the goroutine parks.
WorkerSelect ==
    /\ AtSelect
    /\ \/ /\ stopper = "closed"
          /\ pc' = "exited"
          /\ UNCHANGED <<in, request, response, todo, pre, calls, accepted>>
       \/ /\ in /= <<>>
          /\ Receive(Head(in))
          /\ in' = Tail(in)
       \/ /\ stopper = "open"
          /\ in = <<>>
          /\ pc' = "parked"
          /\ UNCHANGED <<in, request, response, todo, pre, calls, accepted>>
    /\ UNCHANGED <<storageVars, memVars, stopper, out, submitted, sent, backendLog, probe>>

\* The Storage behind the task is any implementation of the interface: its
\* SetGroupElectionState may return an error, and then changes nothing.
StorageSetGroupElectionState(m, groupID, electionState, fails) ==
    IF fails THEN [groups |-> m, err |-> TRUE]
    ELSE SetGroupElectionState(m, groupID, electionState)

\* LastEntry taking the first entry of the request.
LastEntryFirst(entries) == entries[1]

\* groupReq.entries[len(groupReq.entries)-1]
LastEntry(entries) == entries[Len(entries)]

\* GroupIteration with a failed SetGroupElectionState falling through to the
\* append instead of continuing with the next group.
GroupIterationFallThrough(m, groupID, groupReq, setFails) ==
    LET groupResp == [electionState |-> NilElectionState, lastIndex |-> -1,
                      lastTerm |-> -1, entries |-> groupReq.entries]
        s == IF groupReq.electionState.isNil
             THEN [groups |-> m, err |-> FALSE]
             ELSE StorageSetGroupElectionState(m, groupID, groupReq.electionState.val,
                                               setFails)
        setCall == IF groupReq.electionState.isNil THEN "none"
                   ELSE IF s.err THEN "err" ELSE "ok"
        resp1 == IF setCall = "ok"
                 THEN [groupResp EXCEPT !.electionState = groupReq.electionState]
                 ELSE groupResp
        n == Len(groupReq.entries)
        a == IF n > 0
             THEN AppendLogEntries(s.groups, groupID, groupReq.entries)
             ELSE [groups |-> s.groups, err |-> FALSE]
        appendCall == IF n = 0 THEN "none" ELSE IF a.err THEN "err" ELSE "ok"
        resp2 == IF appendCall = "ok"
                 THEN [resp1 EXCEPT !.lastIndex = LastEntry(groupReq.entries).Index,
                                    !.lastTerm = LastEntry(groupReq.entries).Term]
                 ELSE resp1
    IN [groups |-> a.groups, resp |-> resp2,
        calls |-> [set |-> setCall, append |-> appendCall]]

\* One iteration of the range loop, for groupID: the result is the Storage after
\* it, the group's response and what the calls returned.
GroupIteration(m, groupID, groupReq, setFails) ==
    LET groupResp == [electionState |-> NilElectionState, lastIndex |-> -1,
                      lastTerm |-> -1, entries |-> groupReq.entries]
        s == IF groupReq.electionState.isNil
             THEN [groups |-> m, err |-> FALSE]
             ELSE StorageSetGroupElectionState(m, groupID, groupReq.electionState.val,
                                               setFails)
        setCall == IF groupReq.electionState.isNil THEN "none"
                   ELSE IF s.err THEN "err" ELSE "ok"
        resp1 == IF setCall = "ok"
                 THEN [groupResp EXCEPT !.electionState = groupReq.electionState]
                 ELSE groupResp
        n == Len(groupReq.entries)
        a == IF setCall /= "err" /\ n > 0
             THEN AppendLogEntries(s.groups, groupID, groupReq.entries)
             ELSE [groups |-> s.groups, err |-> FALSE]
        appendCall == IF setCall = "err" \/ n = 0 THEN "none"
                      ELSE IF a.err THEN "err" ELSE "ok"
        resp2 == IF appendCall = "ok"
                 THEN [resp1 EXCEPT !.lastIndex = LastEntry(groupReq.entries).Index,
                                    !.lastTerm = LastEntry(groupReq.entries).Term]
                 ELSE resp1
    IN [groups |-> a.groups, resp |-> resp2,
        calls |-> [set |-> setCall, append |-> appendCall]]

\* f with x mapped to v.
With(f, x, v) == [y \in DOMAIN f \cup {x} |-> IF y = x THEN v ELSE f[y]]

\* AfterIteration with an error ending the loop (break for continue).
AfterIterationBreak(r, remaining) ==
    IF remaining = {} \/ r.calls.set = "err" \/ r.calls.append = "err"
    THEN "send" ELSE "apply"

\* Where start() goes after an iteration that returned r: an error makes the
\* loop continue with the next group, and the loop ends when no group is left.
AfterIteration(r, remaining) == IF remaining = {} THEN "send" ELSE "apply"

\* start() runs the loop body for one more group of the request; a Go map is
\* ranged over in any order.
WorkerGroup ==
    /\ pc = "apply"
    /\ \E groupID \in todo :
       \E setFails \in (IF request.groups[groupID].electionState.isNil
                        THEN {FALSE} ELSE BOOLEAN) :
          LET r == GroupIteration(groups, groupID, request.groups[groupID], setFails) IN
          /\ groups' = r.groups
          /\ response' = With(response, groupID, r.resp)
          /\ calls' = With(calls, groupID, r.calls)
          /\ todo' = todo \ {groupID}
          /\ backendLog' = Append(backendLog, request.id)
          /\ pc' = AfterIteration(r, todo')
    /\ UNCHANGED <<call, memVars, stopper, in, out, request, pre, submitted, accepted, sent,
                   probe>>

\* WorkerSend with the send made non-blocking: the response is dropped when out
\* is full.
WorkerSendOrDrop ==
    /\ pc = "send"
    /\ IF Len(out) < OutCap
       THEN /\ out' = Append(out, [id |-> request.id, groups |-> response])
            /\ sent' = Append(sent, request.id)
       ELSE UNCHANGED <<out, sent>>
    /\ pc' = "select"
    /\ UNCHANGED <<storageVars, memVars, stopper, in, request, response, todo, pre, calls,
                   submitted, accepted, backendLog, probe>>

\* w.out <- response: blocks while out is full.
WorkerSend ==
    /\ pc = "send"
    /\ Len(out) < OutCap
    /\ out' = Append(out, [id |-> request.id, groups |-> response])
    /\ sent' = Append(sent, request.id)
    /\ pc' = "select"
    /\ UNCHANGED <<storageVars, memVars, stopper, in, request, response, todo, pre, calls,
                   submitted, accepted, backendLog, probe>>

\* A caller sends a request on in. A goroutine parked in the select receives it
\* directly; otherwise it is buffered, and the send blocks while in is full.
Submit(requests) ==
    /\ Len(submitted) < MaxReq
    /\ \E groupReqs \in requests :
          LET req == [id |-> Len(submitted) + 1, groups |-> groupReqs] IN
          /\ submitted' = Append(submitted, Cardinality(DOMAIN groupReqs))
          /\ IF pc = "parked"
             THEN Receive(req) /\ in' = in
             ELSE /\ Len(in) < InCap
                  /\ in' = Append(in, req)
                  /\ UNCHANGED <<pc, request, response, todo, pre, calls, accepted>>
    /\ UNCHANGED <<storageVars, memVars, stopper, out, sent, backendLog, probe>>

\* ReadyCanProceed with ready made a buffered channel that has room.
ReadyCanProceedBuffered == TRUE

\* Whether a send on ready can proceed: ready is unbuffered, so only when the
\* goroutine is parked in the select, receiving from it.
ReadyCanProceed == pc = "parked"

\* A caller probes the task: select { case w.ready <- struct{}{}: default: }.
\* When the send proceeds, start() takes the ready case and continues its loop.
Probe ==
    /\ probe' = [made |-> TRUE, ok |-> ReadyCanProceed, pc |-> pc, stopper |-> stopper]
    /\ pc' = IF pc = "parked" THEN "select" ELSE pc
    /\ UNCHANGED <<storageVars, memVars, stopper, in, out, request, response, todo, pre, calls,
                   submitted, accepted, sent, backendLog>>

\* A caller receives a response from out.
Drain ==
    /\ out /= <<>>
    /\ out' = Tail(out)
    /\ UNCHANGED <<storageVars, memVars, stopper, in, pc, request, response, todo, pre, calls,
                   submitted, accepted, sent, backendLog, probe>>

\* stop(): closes stopper. A goroutine parked in the select is woken with the
\* stopper case taken, and returns.
Stop ==
    /\ stopper = "open"
    /\ stopper' = "closed"
    /\ pc' = IF pc = "parked" THEN "exited" ELSE pc
    /\ UNCHANGED <<storageVars, memVars, in, out, request, response, todo, pre, calls,
                   submitted, accepted, sent, backendLog, probe>>

Worker == WorkerSelect \/ WorkerGroup \/ WorkerSend

Next ==
    \/ WorkerSelect
    \/ WorkerGroup
    \/ WorkerSend
    \/ Submit(WriteRequests)
    \/ Probe
    \/ Drain
    \/ Stop

\* A writeTask over a Storage, and its callers.
Spec == Init /\ [][Next]_vars

NextStorage ==
    \/ CallAppendLogEntries /\ UNCHANGED <<taskVars, memVars>>
    \/ CallGetLogEntries /\ UNCHANGED <<taskVars, memVars>>

\* The Storage used directly, without a writeTask.
SpecStorage == Init /\ [][NextStorage]_vars

NextElection ==
    \/ CallSetGroupElectionState /\ UNCHANGED <<taskVars, memVars>>

\* The election states of a Storage set directly, without a writeTask.
SpecElection == Init /\ [][NextElection]_vars

\* The goroutine running start() is scheduled and its Storage calls return, and
\* the caller receives what is on out.
Fairness ==
    /\ WF_vars(WorkerSelect)
    /\ WF_vars(WorkerGroup)
    /\ WF_vars(WorkerSend)
    /\ WF_vars(Drain)

NextLive ==
    \/ WorkerSelect
    \/ WorkerGroup
    \/ WorkerSend
    \/ Submit(UniformRequests)
    \/ Probe
    \/ Drain
    \/ Stop

\* The writeTask and its callers when the goroutine is scheduled and the caller
\* drains out, with the requests taken from UniformRequests.
SpecLive == Init /\ [][NextLive]_vars /\ Fairness

NextInMem ==
    \/ CallPut /\ UNCHANGED <<storageVars, taskVars>>
    \/ CallGet /\ UNCHANGED <<storageVars, taskVars>>
    \/ CallScan /\ UNCHANGED <<storageVars, taskVars>>
    \/ CallDel /\ UNCHANGED <<storageVars, taskVars>>
    \/ CallWriteBatch /\ UNCHANGED <<storageVars, taskVars>>
    \/ CallCapacity /\ UNCHANGED <<storageVars, taskVars>>
    \/ Return /\ UNCHANGED <<storageVars, taskVars>>

\* An InMem store and a lone caller of it.
SpecInMem == Init /\ [][NextInMem]_vars

NextInMemShared ==
    \/ \E t \in Threads : BeginWrite(t) /\ UNCHANGED <<storageVars, taskVars>>
    \/ \E t \in Threads : WriteStep(t) /\ UNCHANGED <<storageVars, taskVars>>
    \/ \E t \in Threads : EndWrite(t) /\ UNCHANGED <<storageVars, taskVars>>
    \/ \E t \in Threads : BeginRead(t) /\ UNCHANGED <<storageVars, taskVars>>
    \/ \E t \in Threads : EndRead(t) /\ UNCHANGED <<storageVars, taskVars>>
    \/ \E t \in Threads : BeginCapacity(t) /\ UNCHANGED <<storageVars, taskVars>>
    \/ \E t \in Threads : EndCapacity(t) /\ UNCHANGED <<storageVars, taskVars>>

\* An InMem store called by several goroutines at the same time.
SpecInMemShared == Init /\ [][NextInMemShared]_vars

\* ------------------------------------------------------------------ claims

\* The number of responses sent on out for request id.
Responses(id) == Cardinality({i \in 1..Len(sent) : sent[i] = id})

\* C1: a request sent on in gets exactly one response on out, unless the task is
\* stopped first: out never carries two responses for one request, and every
\* request submitted leads to its response being on out or to stop().
C1_OneResponsePerRequest ==
    /\ [](\A id \in 1..MaxReq : Responses(id) <= 1)
    /\ \A id \in 1..MaxReq :
          (Len(submitted) >= id) ~> (Responses(id) = 1 \/ stopper = "closed")

C1_Witness == sent = <<1, 2>> /\ stopper = "open"

\* Request id is in its range loop: some iterations made, others to come.
InLoop(id) ==
    LET n == Cardinality({p \in 1..Len(backendLog) : backendLog[p] = id})
    IN 0 < n /\ n < submitted[id]

\* C2: requests are received in the order submitted, a request's loop starts
\* only after the loop of every request before it has visited all its groups,
\* at most one request is in its loop, and responses are sent in the order
\* submitted.
C2_InOrderOneAtATime ==
    /\ accepted = [i \in 1..Len(accepted) |-> i]
    /\ sent = [i \in 1..Len(sent) |-> i]
    /\ \A p \in 1..Len(backendLog) : \A id \in 1..(backendLog[p] - 1) :
          Cardinality({q \in 1..(p - 1) : backendLog[q] = id}) = submitted[id]
    /\ Cardinality({id \in 1..Len(submitted) : InLoop(id)}) <= 1

C2_Witness == sent = <<1, 2>> /\ backendLog = <<1, 1, 2, 2>>

\* The response start() has built for its request is complete.
ResponseBuilt == request.id > 0 /\ pc /= "apply"

\* The response on out for the request start() holds, if it is still there.
OnOut == {i \in 1..Len(out) : out[i].id = request.id}

\* C3: in the response, a group's electionState is the requested one when one was
\* requested and SetGroupElectionState returned no error, and nil otherwise; its
\* lastIndex and lastTerm are those of the last requested entry when entries were
\* requested and AppendLogEntries returned no error, and -1 otherwise; and that
\* response is what is sent on out.
C3_ResponseFields ==
    /\ \A g \in DOMAIN response :
          LET groupReq == request.groups[g]
              n == Len(groupReq.entries)
              appended == n > 0 /\ calls[g].append = "ok"
          IN /\ response[g].electionState =
                   IF ~groupReq.electionState.isNil /\ calls[g].set = "ok"
                   THEN groupReq.electionState ELSE NilElectionState
             /\ response[g].lastIndex = IF appended THEN groupReq.entries[n].Index ELSE -1
             /\ response[g].lastTerm = IF appended THEN groupReq.entries[n].Term ELSE -1
    /\ ResponseBuilt => \A i \in OnOut : out[i].groups = response

\* Three entries and no election state requested for g1, and appended.
C3_Witness ==
    /\ OnOut /= {}
    /\ "g1" \in DOMAIN response
    /\ request.groups["g1"].electionState.isNil
    /\ Len(request.groups["g1"].entries) = 3
    /\ response["g1"].electionState.isNil
    /\ response["g1"].lastIndex = 3
    /\ response["g1"].lastTerm = 2

\* C4 as stated: from stop() on, start() receives no request and sends no
\* response.
C4_NothingAfterStop ==
    [][stopper = "closed" => (accepted' = accepted /\ sent' = sent)]_vars

\* C4, amended: from the return of start() on, no request is received and no
\* response is sent; stop() alone does not end either.
C4_NothingAfterReturn ==
    [][pc = "exited" => (accepted' = accepted /\ sent' = sent)]_vars

\* start() has returned and left a request in the inbound slot.
C4_Witness == pc = "exited" /\ in /= <<>> /\ Len(accepted) < Len(submitted)

\* C5: once stop() is called, start() returns without any step of a caller:
\* until it has returned, the goroutine can take a step of its own.
C5_StopReturnsUnaided ==
    (stopper = "closed" /\ pc /= "exited") => ENABLED Worker

\* C6: a probe of ready succeeds only when start() is in its select and stop()
\* has not been called, and fails whenever start() is in the range loop or
\* sending the response.
C6_ReadyOnlyWhenIdle ==
    probe.made =>
        /\ probe.ok => (probe.pc \in {"select", "parked"} /\ probe.stopper = "open")
        /\ probe.pc \in {"apply", "send"} => ~probe.ok

\* A probe succeeded after a request had been answered.
C6_Witness == probe.made /\ probe.ok /\ sent /= <<>>

\* A Storage call made for group g of the request returned an error.
Failed(g) == calls[g].set = "err" \/ calls[g].append = "err"

\* C7: when a Storage call fails for a group, start() goes on: the response has
\* an entry for every group of the request, each echoing the group's requested
\* entries; every group without a failure gets the response and the stored
\* state it gets when processed alone; and the response is sent.
C7_FailureSwallowed ==
    (request.id > 0 /\ pc /= "apply" /\ \E g \in DOMAIN calls : Failed(g)) =>
        /\ DOMAIN response = DOMAIN request.groups
        /\ \A g \in DOMAIN request.groups :
              /\ g \in DOMAIN response
              /\ response[g].entries = request.groups[g].entries
        /\ \A h \in DOMAIN request.groups \cap DOMAIN calls :
              ~Failed(h) =>
                  LET alone == GroupIteration(pre, h, request.groups[h], FALSE)
                  IN /\ response[h] = alone.resp
                     /\ getGroup(groups, h)[h] = getGroup(alone.groups, h)[h]
        /\ pc = "send" \/ Responses(request.id) = 1
        /\ \A i \in OnOut : DOMAIN out[i].groups = DOMAIN request.groups

\* A response is ready in which one group failed and another was appended to.
C7_Witness ==
    /\ pc = "send"
    /\ \E g \in DOMAIN calls : Failed(g)
    /\ \E h \in DOMAIN calls : calls[h].append = "ok"

\* The Index of each entry of a batch.
Indices(entries) == [i \in 1..Len(entries) |-> entries[i].Index]

\* The number of entries appended to a log: the dummy entry is not one.
Appended(log) == Len(log) - 1

\* The log of the group of the last call, as it is now.
LogNow == LogOf(groups, call.group)

\* C8: AppendLogEntries returns no error only for entries with consecutive
\* indices that start right after the last index of the log, and then the log
\* is extended by them; when an entry has another index than that, it returns
\* an error and the log is as it was before the call.
C8_AppendAllOrNothing ==
    call.op = "append" =>
        LET n == Len(call.entries)
            tail == Appended(call.before)
            expected == \A i \in 1..n : call.entries[i].Index = tail + i
        IN /\ ~call.err =>
                 /\ \A i \in 1..(n - 1) :
                       call.entries[i + 1].Index = call.entries[i].Index + 1
                 /\ n > 0 => call.entries[1].Index = tail + 1
                 /\ LogNow = call.before \o call.entries
           /\ ~expected => (call.err /\ LogNow = call.before)
           /\ call.group \in DOMAIN groups

\* A call failed on its second entry: the first one had the expected index.
C8_Witness ==
    /\ call.op = "append"
    /\ call.err
    /\ Len(call.entries) >= 2
    /\ call.entries[1].Index = Appended(call.before) + 1
    /\ Appended(call.before) >= 1

\* The last call was made on a group as getGroup creates it: nothing had been
\* appended to its log.
OnNewLog == call.before = NewMemoryGroup.entries

\* The number of entries the last call added to the log.
Grown == Len(LogNow) - Len(call.before)

\* C9 as stated: on a log with nothing appended, entries with indices 0, 1, 2
\* are appended and the log then has 3 entries, and one entry with index 5 is
\* refused and the log still has none.
C9_ZeroBasedAppend ==
    (call.op = "append" /\ OnNewLog) =>
        /\ Indices(call.entries) = <<0, 1, 2>> => (~call.err /\ Grown = 3)
        /\ Indices(call.entries) = <<5>> => (call.err /\ Grown = 0)

\* C9, amended: on a log with nothing appended, entries with indices 1, 2, 3 are
\* appended and the log then has 3 entries; entries with indices 0, 1, 2 are
\* refused, and so is one entry with index 5, and the log still has none.
C9_OneBasedAppend ==
    (call.op = "append" /\ OnNewLog) =>
        /\ Indices(call.entries) = <<1, 2, 3>> => (~call.err /\ Grown = 3)
        /\ Indices(call.entries) = <<0, 1, 2>> => (call.err /\ Grown = 0)
        /\ Indices(call.entries) = <<5>> => (call.err /\ Grown = 0)

\* Entries 1, 2, 3 were appended to a new log.
C9_Witness ==
    /\ call.op = "append"
    /\ OnNewLog
    /\ Indices(call.entries) = <<1, 2, 3>>
    /\ ~call.err
    /\ Grown = 3

\* C10: GetLogEntries(first, last) with 1 <= first <= last <= the last appended
\* index sends last - first + 1 elements, the one for index i carrying Index i,
\* the entry stored at i, which is the one appended with Index i, and no error,
\* in increasing order of i, and then closes the channel.
C10_GetLogEntriesRange ==
    (/\ call.op = "get"
     /\ 1 <= call.first
     /\ call.first <= call.last
     /\ call.last <= Appended(call.before)) =>
        /\ Len(call.sent) = call.last - call.first + 1
        /\ \A k \in 1..Len(call.sent) :
              /\ call.sent[k].Index = call.first + k - 1
              /\ call.sent[k].Entry = call.before[call.first + k]
              /\ call.sent[k].Entry.Index = call.sent[k].Index
              /\ ~call.sent[k].Entry.isNil
              /\ ~call.sent[k].Error
        /\ call.closed
        /\ ~call.panicked

\* first = 1 and last = 3 on a group with 5 entries appended.
C10_Witness ==
    /\ call.op = "get"
    /\ call.first = 1
    /\ call.last = 3
    /\ Appended(call.before) = 5
    /\ Len(call.sent) = 3
    /\ call.closed

\* C11: whatever AppendLogEntries calls were made, failed ones included, every
\* group's log holds the nil dummy entry at position 0 and, at every position
\* i >= 1, a real entry whose Index is i.
C11_LogContiguous ==
    \A g \in DOMAIN groups :
        LET log == groups[g].entries IN
        /\ Len(log) >= 1
        /\ log[1] = NilEntry
        /\ \A i \in 1..Appended(log) : ~log[i + 1].isNil /\ log[i + 1].Index = i

\* A call failed on a log holding three entries or more, another group holding one.
C11_Witness ==
    /\ call.op = "append"
    /\ call.err
    /\ call.entries /= <<>>
    /\ Appended(LogNow) >= 3
    /\ \E h \in DOMAIN groups : h /= call.group /\ Appended(groups[h].entries) = 1

\* The CurrentTerm a group holds; a group not created yet holds the zero state.
CurrentTermOf(m, g) == getGroup(m, g)[g].electionState.CurrentTerm

\* C12 as stated: no update leaves a group with a lower CurrentTerm than the
\* one it held before.
C12_TermNeverDecreases ==
    [][\A g \in GroupIDs : CurrentTermOf(groups', g) >= CurrentTermOf(groups, g)]_vars

\* C12, amended: SetGroupElectionState returns no error and leaves the group
\* with exactly the state passed, whatever it held before, a lower CurrentTerm
\* included; the group's log and the other groups are as they were.
C12_TermOverwritten ==
    [][call'.op = "set" =>
          /\ ~call'.err
          /\ groups'[call'.group].electionState = call'.electionState
          /\ groups'[call'.group].entries = LogOf(groups, call'.group)
          /\ \A h \in DOMAIN groups' \ {call'.group} :
                h \in DOMAIN groups /\ groups'[h] = groups[h]]_vars

\* A call lowered the CurrentTerm of a group from 2 to 1.
C12_Witness ==
    /\ call.op = "set"
    /\ call.stored.CurrentTerm = 2
    /\ call.electionState.CurrentTerm = 1
    /\ groups[call.group].electionState.CurrentTerm = 1

\* C20: for every group the range loop has visited: when the group's request
\* carries an election state and entries and SetGroupElectionState failed,
\* AppendLogEntries was not called, the group's log and election state are
\* those the Storage held when the request was received, and the response has
\* a nil electionState and lastIndex = lastTerm = -1; when the response's
\* lastIndex is -1 the group's log is the one held when the request was
\* received; and when it is not, the log is that one followed by exactly the
\* request's entries.
C20_FailedSetSkipsAppend ==
    \A g \in DOMAIN response :
        LET groupReq == request.groups[g]
            logBefore == LogOf(pre, g)
            logAfter == LogOf(groups, g)
        IN /\ (/\ ~groupReq.electionState.isNil
               /\ groupReq.entries /= <<>>
               /\ calls[g].set = "err") =>
                  /\ calls[g].append = "none"
                  /\ logAfter = logBefore
                  /\ getGroup(groups, g)[g] = getGroup(pre, g)[g]
                  /\ response[g].electionState.isNil
                  /\ response[g].lastIndex = -1
                  /\ response[g].lastTerm = -1
           /\ response[g].lastIndex = -1 => logAfter = logBefore
           /\ response[g].lastIndex /= -1 => logAfter = logBefore \o groupReq.entries

\* SetGroupElectionState failed for a group asked for a state and an entry that
\* its log would have taken, and another group of the request was appended to.
C20_Witness ==
    /\ pc = "send"
    /\ \E g \in DOMAIN response :
          /\ request.groups[g] = StateAndEntry
          /\ calls[g].set = "err"
          /\ LogOf(pre, g) = NewMemoryGroup.entries
          /\ response[g].lastIndex = -1
    /\ \E h \in DOMAIN response : response[h].lastIndex = 3

\* The sum of computeSize over a set of KeyValues.
RECURSIVE SumOfSizes(_)
SumOfSizes(elems) ==
    IF elems = {} THEN 0
    ELSE LET e == CHOOSE x \in elems : TRUE
         IN computeSize(e) + SumOfSizes(elems \ {e})

\* C13: after any puts (also of keys already stored), dels and writeBatches,
\* usedBytes is the sum over the stored entries of key length + value length +
\* the fixed overhead.
C13_UsedBytesIsSum == inMem.usedBytes = SumOfSizes(inMem.data)

\* The entry stored under a key, as a set: empty when the key is not stored.
Stored(data, key) == {e \in data : e.Key = key}

\* C14: put returns an error exactly when usedBytes + the entry's cost exceeds
\* maxBytes. A put that fails leaves the entries, their values and usedBytes as
\* they were; one that succeeds stores the value under the key, leaves the
\* other entries alone and adds the cost to usedBytes.
C14_PutAdmission ==
    memCall.op = "put" =>
        LET size == computeSize(KeyValue(memCall.key, memCall.value))
            b == memCall.before
        IN /\ memCall.err <=> (b.usedBytes + size > b.maxBytes)
           /\ memCall.err => inMem = b
           /\ ~memCall.err =>
                 /\ Stored(inMem.data, memCall.key) = {KeyValue(memCall.key, memCall.value)}
                 /\ \A k \in Keys \ {memCall.key} : Stored(inMem.data, k) = Stored(b.data, k)
                 /\ inMem.usedBytes = b.usedBytes + size
                 /\ inMem.maxBytes = b.maxBytes

\* A put was refused by one byte on a store holding two entries, and changed
\* nothing.
C14_Witness ==
    /\ memCall.op = "put"
    /\ memCall.err
    /\ Cardinality(memCall.before.data) = 2
    /\ memCall.before.usedBytes + computeSize(KeyValue(memCall.key, memCall.value))
          = memCall.before.maxBytes + 1
    /\ inMem = memCall.before

\* The stored entries a scan is asked for: start <= key < end.
Matching == {e \in memCall.before.data :
                Compare(memCall.start, e.Key) <= 0 /\ Compare(e.Key, memCall.end) < 0}

\* C15: scan(start, end, max), for start <= end, returns stored entries with
\* start <= key < end only, each once and in strictly increasing key order:
\* all of them when max = 0, and when max > 0 the first max of them in key
\* order (all when there are no more than max); the store is as it was.
C15_ScanRange ==
    (memCall.op = "scan" /\ memCall.max >= 0) =>
        LET scanned == memCall.scanned
            n == Len(scanned)
            returned == {scanned[i] : i \in 1..n}
        IN /\ returned \subseteq Matching
           /\ \A i \in 1..(n - 1) : Compare(scanned[i].Key, scanned[i + 1].Key) < 0
           /\ memCall.max = 0 => returned = Matching
           /\ memCall.max > 0 =>
                 /\ n = IF Cardinality(Matching) < memCall.max
                        THEN Cardinality(Matching) ELSE memCall.max
                 /\ \A e \in returned, f \in Matching \ returned : Compare(e.Key, f.Key) < 0
           /\ inMem = memCall.before

\* A scan up to a stored key, with two entries before it and max = 1, returned
\* the first of the two.
C15_Witness ==
    /\ memCall.op = "scan"
    /\ memCall.max = 1
    /\ Stored(memCall.before.data, memCall.end) /= {}
    /\ Cardinality(Matching) = 2
    /\ Len(memCall.scanned) = 1
    /\ memCall.scanned[1].Key = <<1>>

\* C16: del of a key that is not stored returns no error and leaves usedBytes,
\* the number of entries and every entry as they were.
C16_DelAbsent ==
    (memCall.op = "del" /\ Stored(memCall.before.data, memCall.key) = {}) =>
        /\ ~memCall.err
        /\ inMem.usedBytes = memCall.before.usedBytes
        /\ Cardinality(inMem.data) = Cardinality(memCall.before.data)
        /\ inMem.data = memCall.before.data

\* A del of a key that is not stored, on a store that holds other keys.
C16_Witness ==
    /\ memCall.op = "del"
    /\ Stored(memCall.before.data, memCall.key) = {}
    /\ memCall.before.data /= {}
    /\ inMem = memCall.before

\* usedBytes after the first k puts of the call were applied.
UsedAfter(k) ==
    memCall.before.usedBytes
        + SumOfSizes({[i |-> i, Key |-> memCall.puts[i].Key, Value |-> memCall.puts[i].Value] :
                        i \in 1..k})

\* The entries after the first k puts of the call were applied: under a key
\* they put, the value of the last of them that puts it; the others as before.
DataAfter(k) ==
    {e \in memCall.before.data : \A i \in 1..k : memCall.puts[i].Key /= e.Key}
        \cup {memCall.puts[i] : i \in {j \in 1..k :
                                         \A l \in (j + 1)..k :
                                            memCall.puts[l].Key /= memCall.puts[j].Key}}

\* The first put of the call that does not fit, or 0 when all fit.
FirstFailing ==
    LET failing == {j \in 1..Len(memCall.puts) : UsedAfter(j) > memCall.before.maxBytes}
    IN IF failing = {} THEN 0 ELSE CHOOSE j \in failing : \A k \in failing : j <= k

\* C17: writeBatch returns an error exactly when one of its puts does not fit
\* after the puts before it. It then stops there: the puts before the failing
\* one are applied and counted in usedBytes, and neither the failing put, nor
\* the puts after it, nor any del is.
C17_BatchStopsAtFailure ==
    memCall.op = "writeBatch" =>
        /\ memCall.err <=> FirstFailing /= 0
        /\ memCall.err =>
              /\ inMem.usedBytes = UsedAfter(FirstFailing - 1)
              /\ inMem.data = DataAfter(FirstFailing - 1)

\* A writeBatch failed on its second put: the first put is stored, the second
\* is not, and the key to delete is still stored.
C17_Witness ==
    /\ memCall.op = "writeBatch"
    /\ memCall.err
    /\ FirstFailing = 2
    /\ memCall.puts[1].Key /= memCall.puts[2].Key
    /\ Stored(memCall.before.data, memCall.puts[1].Key) = {}
    /\ memCall.puts[1] \in inMem.data
    /\ Stored(inMem.data, memCall.puts[2].Key) = {}
    /\ memCall.dels /= <<>>
    /\ Stored(inMem.data, memCall.dels[1]) /= {}

\* put called for each element of puts in order, then del for each element of
\* dels in order, as separate calls; err when one of them returns an error.
RECURSIVE PutsThenDels(_, _, _)
PutsThenDels(s, puts, dels) ==
    IF puts /= <<>>
    THEN LET r == put(s, Head(puts).Key, Head(puts).Value)
         IN IF r.err THEN r ELSE PutsThenDels(r.store, Tail(puts), dels)
    ELSE IF dels /= <<>>
    THEN LET r == del(s, Head(dels))
         IN IF r.err THEN r ELSE PutsThenDels(r.store, <<>>, Tail(dels))
    ELSE [store |-> s, err |-> FALSE]

\* A sequence in the opposite order.
Reverse(q) == [i \in 1..Len(q) |-> q[Len(q) + 1 - i]]

\* C18: a writeBatch that returns no error leaves the entries and usedBytes
\* that put for each of puts in order and then del for each of dels in order
\* leave: a key of dels is absent, also when puts holds it; a key of puts alone
\* holds the value of the last put of it; the other keys are as before; and
\* dels in the opposite order gives the same store.
C18_BatchAsPutsThenDels ==
    (memCall.op = "writeBatch" /\ ~memCall.err) =>
        LET b == memCall.before
            puts == memCall.puts
            dels == memCall.dels
            seq == PutsThenDels(b, puts, dels)
            deleted == {dels[i] : i \in 1..Len(dels)}
        IN /\ ~seq.err
           /\ inMem = seq.store
           /\ \A k \in deleted : Stored(inMem.data, k) = {}
           /\ \A k \in Keys \ deleted : Stored(inMem.data, k) = Stored(DataAfter(Len(puts)), k)
           /\ inMem = PutsThenDels(b, puts, Reverse(dels)).store

\* writeBatch(puts = [A, B], dels = [A]) on an empty store left only B.
C18_Witness ==
    /\ memCall.op = "writeBatch"
    /\ ~memCall.err
    /\ memCall.before.data = {}
    /\ Len(memCall.puts) = 2
    /\ memCall.dels = <<memCall.puts[1].Key>>
    /\ inMem.data = {memCall.puts[2]}

\* C19: while a goroutine is between the start and the end of a put, del or
\* writeBatch, no other goroutine is inside any call of the store, and no get,
\* scan or capacity has read the store while a put, del or writeBatch held it.
C19_WritesExclusive ==
    \A t \in Threads :
        /\ threads[t].pc = "write" => \A u \in Threads \ {t} : threads[u].pc = "idle"
        /\ ~threads[t].midWrite

====
